---- MODULE Spec2Model ----
(***************************************************************************)
(* Boolean expression trees with serialization (src/expr.py): the smart    *)
(* constructors, the tokenizer and recursive-descent parser, the           *)
(* formatter, the simplifier, substitution, evaluation and variable        *)
(* collection, as operators over a TLA+ encoding of the Python values; the *)
(* state machine applies them to inputs drawn from bounded sets.           *)
(***************************************************************************)
EXTENDS Integers, Sequences, FiniteSets, TLC

VARIABLES seed, expr, args, vars, text, op, result

state == <<seed, expr, args, vars, text, op, result>>

(***************************************************************************)
(* Bounds of the model.                                                    *)
(***************************************************************************)
NumVars == 2
MaxKids == 3
MaxList == 3
MaxLen == 4
MaxEdit == 9

(***************************************************************************)
(* Expression values.  Every value is a record of one shape: tag, name (a  *)
(* sequence of characters, used by Variable) and exprs (the children: the  *)
(* frozenset of an AndExpr/OrExpr, the one operand of a NotExpr).          *)
(***************************************************************************)
None == [tag |-> "None", name |-> <<>>, exprs |-> {}]
PyTrue == [tag |-> "True", name |-> <<>>, exprs |-> {}]
PyFalse == [tag |-> "False", name |-> <<>>, exprs |-> {}]
Variable(name) == [tag |-> "Variable", name |-> name, exprs |-> {}]
NotExpr(e) == [tag |-> "NotExpr", name |-> <<>>, exprs |-> {e}]
AndExpr(exprs) == [tag |-> "AndExpr", name |-> <<>>, exprs |-> exprs]
OrExpr(exprs) == [tag |-> "OrExpr", name |-> <<>>, exprs |-> exprs]

\* the operand of a NotExpr (its field expr)
Operand(e) == CHOOSE x \in e.exprs : TRUE

(***************************************************************************)
(* Python's == and hash on these values.  The four node types are          *)
(* namedtuples, that is tuples: two of them are equal when their fields    *)
(* are equal, whatever their classes.  AndExpr(s) and OrExpr(s) are both   *)
(* the 1-tuple (s,), so they are equal; a NotExpr holds an expression and  *)
(* a Variable a string, so these never collide with a frozenset holder.    *)
(* PyKey maps a value to a representative of its ==-class.                 *)
(***************************************************************************)
RECURSIVE PyKey(_)
PyKey(e) ==
    IF e.tag \in {"AndExpr", "OrExpr"}
    THEN [tag |-> "tuple", name |-> <<>>, exprs |-> {PyKey(c) : c \in e.exprs}]
    ELSE IF e.tag = "NotExpr"
    THEN [tag |-> "NotExpr", name |-> <<>>, exprs |-> {PyKey(Operand(e))}]
    ELSE e

PyEq(x, y) == PyKey(x) = PyKey(y)

\* x in s, for a Python set s
PyIn(x, s) == \E y \in s : PyEq(x, y)

\* s.add(x): an element equal to x already in s is kept
PyAdd(s, x) == IF PyIn(x, s) THEN s ELSE s \cup {x}

\* s |= t, for a frozenset t (its elements are pairwise unequal)
PyUpdate(s, t) == s \cup {x \in t : ~PyIn(x, s)}

\* s.discard(x)
PyDiscard(s, x) == {y \in s : ~PyEq(x, y)}

\* frozenset(xs) / set(xs) of an iterable, given as the sequence it yields
RECURSIVE PySetFrom(_, _)
PySetFrom(acc, xs) ==
    IF xs = <<>> THEN acc ELSE PySetFrom(PyAdd(acc, Head(xs)), Tail(xs))

frozenset(xs) == PySetFrom({}, xs)

(***************************************************************************)
(* Iteration order of a set.  It follows the hashes, and the hash of a     *)
(* string depends on the process's hash seed: the order is fixed within a  *)
(* run and unspecified across runs.  seed selects one of two orders, each  *)
(* the reverse of the other.                                               *)
(***************************************************************************)
Seeds == {"fwd", "rev"}

RECURSIVE Enum(_)
Enum(s) ==
    IF s = {} THEN <<>>
    ELSE LET x == CHOOSE y \in s : TRUE IN <<x>> \o Enum(s \ {x})

Reverse(xs) == [i \in 1..Len(xs) |-> xs[Len(xs) + 1 - i]]

Iter(s) == IF seed = "fwd" THEN Enum(s) ELSE Reverse(Enum(s))

(***************************************************************************)
(* The constructors.  exprs is the sequence the iterable yields.           *)
(***************************************************************************)
make_not(e) == NotExpr(e)

make_or(exprs) ==
    LET s == frozenset(exprs) IN
    IF s = {} THEN PyFalse
    ELSE IF Cardinality(s) = 1 THEN Iter(s)[1]
    ELSE OrExpr(s)

make_and(exprs) ==
    LET s == frozenset(exprs) IN
    IF s = {} THEN PyTrue
    ELSE IF Cardinality(s) = 1 THEN Iter(s)[1]
    ELSE AndExpr(s)

(***************************************************************************)
(* simplify                                                                *)
(***************************************************************************)
RECURSIVE simplify(_)

\* [simplify(subexpr) for subexpr in exprs]
RECURSIVE SimplifyEach(_)
SimplifyEach(xs) ==
    IF xs = <<>> THEN <<>> ELSE <<simplify(Head(xs))>> \o SimplifyEach(Tail(xs))

\* the flattening loop of simplify over the subexpressions xs, for nodes of tag
RECURSIVE Flatten(_, _, _)
Flatten(tag, acc, xs) ==
    IF xs = <<>> THEN acc
    ELSE IF Head(xs).tag = tag
    THEN Flatten(tag, PyUpdate(acc, Head(xs).exprs), Tail(xs))
    ELSE Flatten(tag, PyAdd(acc, Head(xs)), Tail(xs))

\* simplify with the annihilator looked for among the children as given,
\* before they are simplified
SimplifyChecksEarly(e) ==
    IF e.tag = "NotExpr" THEN
        LET subexpr == simplify(Operand(e)) IN
        IF subexpr.tag = "NotExpr" THEN Operand(subexpr)
        ELSE IF subexpr = PyTrue THEN PyFalse
        ELSE IF subexpr = PyFalse THEN PyTrue
        ELSE make_not(subexpr)
    ELSE IF e.tag = "AndExpr" THEN
        LET subexprs == frozenset(SimplifyEach(Iter(e.exprs))) IN
        IF PyIn(PyFalse, e.exprs) THEN PyFalse
        ELSE make_and(Iter(PyDiscard(Flatten("AndExpr", {}, Iter(subexprs)), PyTrue)))
    ELSE IF e.tag = "OrExpr" THEN
        LET subexprs == frozenset(SimplifyEach(Iter(e.exprs))) IN
        IF PyIn(PyTrue, e.exprs) THEN PyTrue
        ELSE make_or(Iter(PyDiscard(Flatten("OrExpr", {}, Iter(subexprs)), PyFalse)))
    ELSE e

\* simplify without the flattening loop
SimplifyKeepsNesting(e) ==
    IF e.tag = "NotExpr" THEN
        LET subexpr == simplify(Operand(e)) IN
        IF subexpr.tag = "NotExpr" THEN Operand(subexpr)
        ELSE IF subexpr = PyTrue THEN PyFalse
        ELSE IF subexpr = PyFalse THEN PyTrue
        ELSE make_not(subexpr)
    ELSE IF e.tag = "AndExpr" THEN
        LET subexprs == frozenset(SimplifyEach(Iter(e.exprs))) IN
        IF PyIn(PyFalse, subexprs) THEN PyFalse
        ELSE make_and(Iter(PyDiscard(subexprs, PyTrue)))
    ELSE IF e.tag = "OrExpr" THEN
        LET subexprs == frozenset(SimplifyEach(Iter(e.exprs))) IN
        IF PyIn(PyTrue, subexprs) THEN PyTrue
        ELSE make_or(Iter(PyDiscard(subexprs, PyFalse)))
    ELSE e

simplify(e) ==
    IF e.tag = "NotExpr" THEN
        LET subexpr == simplify(Operand(e)) IN
        IF subexpr.tag = "NotExpr" THEN Operand(subexpr)
        ELSE IF subexpr = PyTrue THEN PyFalse
        ELSE IF subexpr = PyFalse THEN PyTrue
        ELSE make_not(subexpr)
    ELSE IF e.tag = "AndExpr" THEN
        LET subexprs == frozenset(SimplifyEach(Iter(e.exprs))) IN
        IF PyIn(PyFalse, subexprs) THEN PyFalse
        ELSE make_and(Iter(PyDiscard(Flatten("AndExpr", {}, Iter(subexprs)), PyTrue)))
    ELSE IF e.tag = "OrExpr" THEN
        LET subexprs == frozenset(SimplifyEach(Iter(e.exprs))) IN
        IF PyIn(PyTrue, subexprs) THEN PyTrue
        ELSE make_or(Iter(PyDiscard(Flatten("OrExpr", {}, Iter(subexprs)), PyFalse)))
    ELSE e

(***************************************************************************)
(* The tokenizer.  A text is a sequence of characters, a token a sequence  *)
(* of characters; the generator is modelled by the sequence of tokens it   *)
(* yields, ended by LexError when it raises ValueError (invalid symbol).   *)
(***************************************************************************)
Letters == {"a", "b", "c", "d"}

\* str.isalpha(), for a character and for a token
isalpha(symbol) == symbol \in Letters
IsAlphaToken(token) == token # <<>> /\ \A i \in 1..Len(token) : isalpha(token[i])

LexError == <<"ValueError">>

\* the loop of _parse_into_tokens from the rest of the input on, token in progress
RECURSIVE TokenLoop(_, _)
TokenLoop(input, token) ==
    IF input = <<>>
    THEN (IF token # <<>> THEN <<token>> ELSE <<>>) \o << <<")">> >>
    ELSE LET symbol == Head(input)
             flushed == IF ~isalpha(symbol) /\ token # <<>> THEN <<token>> ELSE <<>>
             token1 == IF isalpha(symbol) THEN Append(token, symbol) ELSE <<>>
         IN  IF symbol \in {" ", "\t", "\n"}
             THEN flushed \o TokenLoop(Tail(input), token1)
             ELSE IF symbol \in {"(", ")", "&", "|", "~", "0", "1"}
             THEN flushed \o << <<symbol>> >> \o TokenLoop(Tail(input), token1)
             ELSE IF ~isalpha(symbol)
             THEN flushed \o <<LexError>>
             ELSE TokenLoop(Tail(input), token1)

parse_into_tokens(input) == << <<"(">> >> \o TokenLoop(input, <<>>)

(***************************************************************************)
(* The parser.  A call returns [kind, expr, pos]: kind is "ok" with the    *)
(* tree and the position of the next unread token, or the name of the      *)
(* exception that leaves the call.  next(tokens) past the last token       *)
(* raises StopIteration; on LexError it raises the tokenizer's ValueError. *)
(***************************************************************************)
Return(e, pos) == [kind |-> "ok", expr |-> e, pos |-> pos]
Raise(kind) == [kind |-> kind, expr |-> None, pos |-> 0]

\* operator = None
NoOperator == <<>>

RECURSIVE parse_into_tree(_, _)
RECURSIVE GroupLoop(_, _, _, _)

\* the inner while loop of _parse_into_tree, from one iteration on
\* (GroupLoopAnyOperator: the same loop without the test of the operator)
GroupLoopAnyOperator(tokens, pos, operator, exprs) ==
    LET r == parse_into_tree(tokens, pos) IN
    IF r.kind # "ok" THEN r
    ELSE IF r.pos > Len(tokens) THEN Raise("StopIteration")
    ELSE LET token == tokens[r.pos]
             exprs1 == Append(exprs, r.expr)
         IN  IF token = LexError THEN Raise("ValueError")
             ELSE IF token = <<")">> THEN
                 IF operator = <<"&">> THEN Return(make_and(exprs1), r.pos + 1)
                 ELSE IF operator = <<"|">> THEN Return(make_or(exprs1), r.pos + 1)
                 ELSE IF Len(exprs1) = 1 /\ operator = NoOperator
                 THEN Return(exprs1[1], r.pos + 1)
                 ELSE Raise("ValueError")
             ELSE GroupLoop(tokens, r.pos + 1, token, exprs1)

GroupLoop(tokens, pos, operator, exprs) ==
    LET r == parse_into_tree(tokens, pos) IN
    IF r.kind # "ok" THEN r
    ELSE IF r.pos > Len(tokens) THEN Raise("StopIteration")
    ELSE LET token == tokens[r.pos]
             exprs1 == Append(exprs, r.expr)
         IN  IF token = LexError THEN Raise("ValueError")
             ELSE IF token = <<")">> THEN
                 IF operator = <<"&">> THEN Return(make_and(exprs1), r.pos + 1)
                 ELSE IF operator = <<"|">> THEN Return(make_or(exprs1), r.pos + 1)
                 ELSE IF Len(exprs1) = 1 /\ operator = NoOperator
                 THEN Return(exprs1[1], r.pos + 1)
                 ELSE Raise("ValueError")
             ELSE IF operator # NoOperator /\ token # operator THEN Raise("ValueError")
             ELSE GroupLoop(tokens, r.pos + 1, token, exprs1)

parse_into_tree(tokens, pos) ==
    IF pos > Len(tokens) THEN Raise("StopIteration")
    ELSE LET token == tokens[pos] IN
        IF token = LexError THEN Raise("ValueError")
        ELSE IF token = <<"~">> THEN
            LET r == parse_into_tree(tokens, pos + 1) IN
            IF r.kind = "ok" THEN Return(make_not(r.expr), r.pos) ELSE r
        ELSE IF token = <<"0">> THEN Return(PyFalse, pos + 1)
        ELSE IF token = <<"1">> THEN Return(PyTrue, pos + 1)
        ELSE IF IsAlphaToken(token) THEN Return(Variable(token), pos + 1)
        ELSE IF token = <<"(">> THEN GroupLoop(tokens, pos + 1, NoOperator, <<>>)
        ELSE Raise("ValueError")

\* the outcome of an operation: an expression, or the exception raised
Ok(e) == [kind |-> "ok", expr |-> e]
Exc(kind) == [kind |-> kind, expr |-> None]

parse(input) ==
    LET tokens == parse_into_tokens(input)
        r == parse_into_tree(tokens, 1)
    IN  IF r.kind # "ok" THEN Exc(r.kind)
        ELSE IF r.pos > Len(tokens) THEN Ok(r.expr)
        ELSE Exc("ValueError")

(***************************************************************************)
(* The formatter: the characters of ''.join(chunks).                       *)
(***************************************************************************)
RECURSIVE format_chunks(_)

\* the loop over expr.exprs: the subexpressions, with operator between them
RECURSIVE JoinChunks(_, _)
JoinChunks(xs, operator) ==
    IF xs = <<>> THEN <<>>
    ELSE format_chunks(Head(xs))
         \o (IF Len(xs) > 1 THEN <<operator>> ELSE <<>>)
         \o JoinChunks(Tail(xs), operator)

\* format_chunks without the parentheses of a node
FormatChunksBare(e) ==
    IF e = PyTrue THEN <<"1">>
    ELSE IF e = PyFalse THEN <<"0">>
    ELSE IF e.tag \in {"AndExpr", "OrExpr"} THEN
        JoinChunks(Iter(e.exprs), IF e.tag = "AndExpr" THEN "&" ELSE "|")
    ELSE IF e.tag = "NotExpr" THEN <<"~">> \o format_chunks(Operand(e))
    ELSE IF e.tag = "Variable" THEN e.name
    ELSE <<"TypeError">>

format_chunks(e) ==
    IF e = PyTrue THEN <<"1">>
    ELSE IF e = PyFalse THEN <<"0">>
    ELSE IF e.tag \in {"AndExpr", "OrExpr"} THEN
        <<"(">> \o JoinChunks(Iter(e.exprs), IF e.tag = "AndExpr" THEN "&" ELSE "|")
                \o <<")">>
    ELSE IF e.tag = "NotExpr" THEN <<"~">> \o format_chunks(Operand(e))
    ELSE IF e.tag = "Variable" THEN e.name
    ELSE <<"TypeError">>

format(e) == format_chunks(e)

(***************************************************************************)
(* substitute, evaluate, variables.  bindings is the dict vars: a function *)
(* from names to expressions.                                              *)
(***************************************************************************)
RECURSIVE substitute(_, _)

\* the generator (substitute(subexpr, vars) for subexpr in exprs)
RECURSIVE SubstituteEach(_, _)
SubstituteEach(xs, bindings) ==
    IF xs = <<>> THEN <<>>
    ELSE <<substitute(Head(xs), bindings)>> \o SubstituteEach(Tail(xs), bindings)

\* substitute that does not descend into AndExpr and OrExpr
SubstituteShallow(e, bindings) ==
    IF e.tag = "Variable"
    THEN IF e.name \in DOMAIN bindings THEN bindings[e.name] ELSE e
    ELSE IF e.tag = "NotExpr" THEN make_not(substitute(Operand(e), bindings))
    ELSE e

substitute(e, bindings) ==
    IF e.tag = "Variable"
    THEN IF e.name \in DOMAIN bindings THEN bindings[e.name] ELSE e
    ELSE IF e.tag = "NotExpr" THEN make_not(substitute(Operand(e), bindings))
    ELSE IF e.tag = "AndExpr" THEN make_and(SubstituteEach(Iter(e.exprs), bindings))
    ELSE IF e.tag = "OrExpr" THEN make_or(SubstituteEach(Iter(e.exprs), bindings))
    ELSE e

\* evaluate without the simplification
EvaluateUnsimplified(e, bindings) == substitute(e, bindings)

evaluate(e, bindings) == simplify(substitute(e, bindings))

RECURSIVE variables(_)
variables(e) ==
    IF e.tag = "Variable" THEN {e.name}
    ELSE IF e.tag = "NotExpr" THEN variables(Operand(e))
    ELSE IF e.tag \in {"AndExpr", "OrExpr"}
    THEN UNION {variables(subexpr) : subexpr \in e.exprs}
    ELSE {}

(***************************************************************************)
(* The inputs.  Expressions are built with the constructors, two levels    *)
(* deep: nodes of up to MaxKids children over the atoms, then negations    *)
(* and binary nodes over those.  Texts are all strings of up to MaxLen     *)
(* characters over Alphabet; longer ones are formatted expressions, as     *)
(* they are or altered in one place.                                       *)
(***************************************************************************)
NameList == <<"a", "b", "c", "d">>
Names == {<<NameList[i]>> : i \in 1..NumVars}

Atoms == {PyTrue, PyFalse} \cup {Variable(n) : n \in Names}

\* the subsets of s of at most k elements
RECURSIVE UpTo(_, _)
UpTo(s, k) ==
    IF k = 0 THEN {{}}
    ELSE LET p == UpTo(s, k - 1) IN p \cup {t \cup {x} : t \in p, x \in s}

Pairs(s) == {{x, y} : x \in s, y \in s}

Built(sets, operands) ==
    {make_not(x) : x \in operands}
        \cup {make_and(Iter(t)) : t \in sets}
        \cup {make_or(Iter(t)) : t \in sets}

Level1 == Atoms \cup Built(UpTo(Atoms, MaxKids), Atoms)
Level2 == Level1 \cup Built(Pairs(Level1), Level1)

\* the nodes over variables alone, of every name of NameList
AllNames == {<<NameList[i]>> : i \in DOMAIN NameList}
Flat == Built(SUBSET {Variable(n) : n \in AllNames}, {})

Alphabet == {"(", ")", "&", "|", "~", "a", " ", "!"}

RECURSIVE Texts(_)
Texts(n) ==
    IF n = 0 THEN {<<>>}
    ELSE LET p == Texts(n - 1) IN p \cup {Append(t, c) : t \in p, c \in Alphabet}

\* the argument lists of make_and and make_or
Operands ==
    Atoms \cup {NotExpr(Variable(<<"a">>)),
                AndExpr({Variable(<<"a">>), Variable(<<"b">>)}),
                OrExpr({Variable(<<"a">>), Variable(<<"b">>)})}

RECURSIVE Lists(_)
Lists(n) ==
    IF n = 0 THEN {<<>>}
    ELSE LET p == Lists(n - 1) IN p \cup {Append(xs, x) : xs \in p, x \in Operands}

\* the dicts that bind no name, one name, or every name of Names to constants
Bindings ==
    UNION {[d -> {PyTrue, PyFalse}] : d \in {{}, Names} \cup {{n} : n \in AllNames}}

NoVars == [n \in {} |-> None]
NoResult == [kind |-> "none", expr |-> None]

(***************************************************************************)
(* The state machine: an input is drawn, then operations are applied.      *)
(***************************************************************************)
Init ==
    /\ seed \in Seeds
    /\ \/ expr \in Level2 \cup Flat /\ text = <<>>
       \/ expr = None /\ text \in Texts(MaxLen)
    /\ args = <<>>
    /\ vars = NoVars
    /\ op = "init"
    /\ result = NoResult

MakeAnd ==
    /\ op = "init" /\ expr = None /\ text = <<>>
    /\ \E xs \in Lists(MaxList) : args' = xs /\ result' = Ok(make_and(xs))
    /\ op' = "make_and"
    /\ UNCHANGED <<seed, expr, vars, text>>

MakeOr ==
    /\ op = "init" /\ expr = None /\ text = <<>>
    /\ \E xs \in Lists(MaxList) : args' = xs /\ result' = Ok(make_or(xs))
    /\ op' = "make_or"
    /\ UNCHANGED <<seed, expr, vars, text>>

\* one more level: the input negated, or joined with an atom
Wrap ==
    /\ op = "init" /\ expr # None
    /\ \/ expr' = make_not(expr)
       \/ \E x \in Atoms : expr' = make_and(<<expr, x>>)
       \/ \E x \in Atoms : expr' = make_or(<<expr, x>>)
    /\ op' = "wrap"
    /\ UNCHANGED <<seed, args, vars, text, result>>

Simplify ==
    /\ op \in {"init", "wrap"} /\ expr # None
    /\ result' = Ok(simplify(expr))
    /\ op' = "simplify"
    /\ UNCHANGED <<seed, expr, args, vars, text>>

Substitute ==
    /\ op = "init" /\ expr # None
    /\ \E b \in Bindings : vars' = b /\ result' = Ok(substitute(expr, b))
    /\ op' = "substitute"
    /\ UNCHANGED <<seed, expr, args, text>>

Evaluate ==
    /\ op = "init" /\ expr # None
    /\ \E b \in Bindings : vars' = b /\ result' = Ok(evaluate(expr, b))
    /\ op' = "evaluate"
    /\ UNCHANGED <<seed, expr, args, text>>

Format ==
    /\ op \in {"init", "wrap"} /\ expr # None
    /\ text' = format(expr)
    /\ op' = "format"
    /\ UNCHANGED <<seed, expr, args, vars, result>>

\* the caller alters a formatted text of at most MaxEdit characters before
\* parsing it: one operator replaced by the other, or one character left out
Flip(c) == IF c = "&" THEN "|" ELSE "&"
Drop(xs, i) == SubSeq(xs, 1, i - 1) \o SubSeq(xs, i + 1, Len(xs))

Edit ==
    /\ op = "format" /\ Len(text) <= MaxEdit
    /\ \E i \in DOMAIN text :
        \/ text[i] \in {"&", "|"} /\ text' = [text EXCEPT ![i] = Flip(text[i])]
        \/ text' = Drop(text, i)
    /\ expr' = None
    /\ op' = "edit"
    /\ UNCHANGED <<seed, args, vars, result>>

Parse ==
    /\ \/ op \in {"init", "edit"} /\ expr = None
       \/ op = "format"
    /\ result' = parse(text)
    /\ op' = "parse"
    /\ UNCHANGED <<seed, expr, args, vars, text>>

Next == MakeAnd \/ MakeOr \/ Wrap \/ Simplify \/ Substitute \/ Evaluate \/ Format \/ Edit \/ Parse

Spec == Init /\ [][Next]_state

(***************************************************************************)
(* Definitions used by the properties.                                     *)
(***************************************************************************)
a == Variable(<<"a">>)
b == Variable(<<"b">>)

\* the elements of a list, as a set under structural equality
Range(xs) == {xs[i] : i \in DOMAIN xs}

\* the boolean value of e under the assignment asg of its variables
RECURSIVE Value(_, _)
Value(e, asg) ==
    IF e = PyTrue THEN TRUE
    ELSE IF e = PyFalse THEN FALSE
    ELSE IF e.tag = "Variable" THEN asg[e.name]
    ELSE IF e.tag = "NotExpr" THEN ~Value(Operand(e), asg)
    ELSE IF e.tag = "AndExpr" THEN \A c \in e.exprs : Value(c, asg)
    ELSE \E c \in e.exprs : Value(c, asg)

\* every AndExpr/OrExpr of e has two children or more, none of its own
\* operator and none equal to its identity constant
RECURSIVE Canonical(_)
Canonical(e) ==
    /\ e.tag \in {"AndExpr", "OrExpr"} =>
        /\ Cardinality(e.exprs) >= 2
        /\ \A c \in e.exprs : c.tag # e.tag
        /\ (IF e.tag = "AndExpr" THEN PyTrue ELSE PyFalse) \notin e.exprs
    /\ \A c \in e.exprs : Canonical(c)

\* no group of the token sequence holds both & and |: stack has, for every
\* open group, the operator seen in it so far
RECURSIVE Uniform(_, _)
Uniform(tokens, stack) ==
    IF tokens = <<>> THEN TRUE
    ELSE LET token == Head(tokens)
             n == Len(stack)
         IN  IF token = <<"(">> THEN Uniform(Tail(tokens), Append(stack, NoOperator))
             ELSE IF token = <<")">>
             THEN Uniform(Tail(tokens), IF n = 0 THEN stack ELSE SubSeq(stack, 1, n - 1))
             ELSE IF token \in {<<"&">>, <<"|">>} /\ n > 0
             THEN IF stack[n] \notin {NoOperator, token} THEN FALSE
                  ELSE Uniform(Tail(tokens), [stack EXCEPT ![n] = token])
             ELSE Uniform(Tail(tokens), stack)

\* no two sub-expressions stand side by side with no token between them
StartsExpr(token) == IsAlphaToken(token) \/ token \in {<<"0">>, <<"1">>, <<"(">>, <<"~">>}
EndsExpr(token) == IsAlphaToken(token) \/ token \in {<<"0">>, <<"1">>, <<")">>}
Separated(tokens) ==
    \A i \in 1..(Len(tokens) - 1) : ~(EndsExpr(tokens[i]) /\ StartsExpr(tokens[i + 1]))

\* the one name bound by a dict of one entry
Bound(bindings) == CHOOSE v \in DOMAIN bindings : TRUE

(***************************************************************************)
(* Properties.                                                             *)
(***************************************************************************)

\* C1: round trip.  For every expression built with the constructors,
\* parsing its formatted text succeeds and returns the same expression
\* (children compared as sets).
RoundTrip == (op = "parse" /\ expr # None) => result = Ok(expr)

RoundTripWitness ==
    /\ op = "parse" /\ expr # None /\ result.kind = "ok"
    /\ expr.tag = "AndExpr"
    /\ \E c \in expr.exprs : c.tag = "OrExpr" /\ Cardinality(c.exprs) >= 3
    /\ \E c \in expr.exprs : c.tag = "NotExpr"

\* C2: simplify is idempotent: simplifying the result of simplify returns
\* that result.
SimplifyIdempotent == op = "simplify" => simplify(result.expr) = result.expr

SimplifyIdempotentWitness ==
    /\ op = "simplify" /\ result.expr # expr
    /\ expr.tag = "OrExpr" /\ result.expr.tag = "AndExpr"
    /\ \E c \in expr.exprs : c.tag = "OrExpr"

\* C3: canonical form.  In the result of simplify every AndExpr/OrExpr, at
\* any depth, has at least two children, no child of its own operator and
\* no child equal to its identity constant.
SimplifyCanonical == op = "simplify" => Canonical(result.expr)

SimplifyCanonicalWitness ==
    /\ op = "simplify" /\ ~Canonical(expr)
    /\ expr.tag = "AndExpr" /\ result.expr.tag = "AndExpr"
    /\ \E c \in expr.exprs : c.tag = "AndExpr" /\ PyTrue \in c.exprs
    /\ \E c \in result.expr.exprs : c.tag = "OrExpr"

\* C4: every failure of parse is a ValueError: parse returns a tree or
\* raises ValueError, never another exception.
ParseRaisesOnlyValueError == op = "parse" => result.kind \in {"ok", "ValueError"}

\* C5: make_and returns True for no element, the one element when all are
\* structurally equal, else the AndExpr over the structurally distinct
\* elements; make_or likewise with False and OrExpr.  An AndExpr and an
\* OrExpr over the same children are two distinct elements.
MakeDistinct ==
    LET s == Range(args) IN
    /\ op = "make_and" =>
        result.expr = IF s = {} THEN PyTrue
                      ELSE IF Cardinality(s) = 1 THEN CHOOSE x \in s : TRUE
                      ELSE AndExpr(s)
    /\ op = "make_or" =>
        result.expr = IF s = {} THEN PyFalse
                      ELSE IF Cardinality(s) = 1 THEN CHOOSE x \in s : TRUE
                      ELSE OrExpr(s)

\* C6, as stated: substituting False for b in a&b yields the constant False,
\* and substituting True for b in a|b yields the constant True.
SubstituteFolds ==
    /\ (op = "substitute" /\ Ok(expr) = parse(<<"a", "&", "b">>)
            /\ vars = (<<"b">> :> PyFalse)) => result.expr = PyFalse
    /\ (op = "substitute" /\ Ok(expr) = parse(<<"a", "|", "b">>)
            /\ vars = (<<"b">> :> PyTrue)) => result.expr = PyTrue

\* C6, amended: substitute rebuilds the node with make_and/make_or, which
\* only remove duplicates: substituting False for b in a&b yields the
\* AndExpr over a and False, substituting True for b in a|b the OrExpr over
\* a and True; evaluate (the simplification of these) yields False and True.
SubstituteRebuilds ==
    /\ (op = "substitute" /\ Ok(expr) = parse(<<"a", "&", "b">>)
            /\ vars = (<<"b">> :> PyFalse)) =>
        /\ result.expr = AndExpr({a, PyFalse})
        /\ evaluate(expr, vars) = PyFalse
    /\ (op = "substitute" /\ Ok(expr) = parse(<<"a", "|", "b">>)
            /\ vars = (<<"b">> :> PyTrue)) =>
        /\ result.expr = OrExpr({a, PyTrue})
        /\ evaluate(expr, vars) = PyTrue

SubstituteRebuildsWitness ==
    /\ op = "substitute" /\ expr = AndExpr({a, b}) /\ vars = (<<"b">> :> PyFalse)
    /\ result.expr.tag = "AndExpr"

\* C7: partial evaluation of a node over variables.  Binding one child v
\* of an AndExpr to True leaves make_and of the other children, to False
\* yields False; binding a child of an OrExpr to False leaves make_or of
\* the others, to True yields True.
PartialEvaluation ==
    (/\ op = "evaluate" /\ expr.tag \in {"AndExpr", "OrExpr"}
     /\ \A c \in expr.exprs : c.tag = "Variable"
     /\ Cardinality(DOMAIN vars) = 1
     /\ Variable(Bound(vars)) \in expr.exprs) =>
        LET v == Bound(vars)
            rest == Iter(expr.exprs \ {Variable(v)})
        IN  result.expr =
                IF expr.tag = "AndExpr"
                THEN (IF vars[v] = PyTrue THEN make_and(rest) ELSE PyFalse)
                ELSE (IF vars[v] = PyFalse THEN make_or(rest) ELSE PyTrue)

PartialEvaluationWitness ==
    /\ op = "evaluate" /\ expr.tag = "AndExpr"
    /\ \A c \in expr.exprs : c.tag = "Variable"
    /\ Cardinality(expr.exprs) >= 3
    /\ Cardinality(DOMAIN vars) = 1 /\ Variable(Bound(vars)) \in expr.exprs
    /\ vars[Bound(vars)] = PyTrue
    /\ result.expr.tag = "AndExpr"

\* C8: operator uniformity.  When parse returns a tree, no group of the
\* input mixes & and | and no two sub-expressions are adjacent; an input
\* with & and | in one group is rejected with ValueError; and the input in
\* one more pair of parentheses parses to the same tree.
OperatorUniformity ==
    op = "parse" =>
        LET tokens == parse_into_tokens(text) IN
        /\ result.kind = "ok" => Uniform(tokens, <<>>) /\ Separated(tokens)
        /\ ~Uniform(tokens, <<>>) => result.kind = "ValueError"
        /\ result.kind = "ok" => parse(<<"(">> \o text \o <<")">>) = result

OperatorUniformityWitness ==
    /\ op = "parse" /\ expr = None /\ result.kind = "ok"
    /\ result.expr.tag = "OrExpr"
    /\ \E i \in DOMAIN text : text[i] = "("

\* C9: simplify preserves meaning: under every assignment of the variables
\* of e, simplify(e) has the boolean value of e.
SimplifyPreservesValue ==
    op = "simplify" =>
        \A asg \in [variables(expr) -> BOOLEAN] :
            Value(result.expr, asg) = Value(expr, asg)

\* C10: total evaluation.  When the dict binds every variable of e to a
\* constant, evaluate returns a constant, the boolean value of e.
TotalEvaluation ==
    (op = "evaluate" /\ variables(expr) \subseteq DOMAIN vars) =>
        /\ result.expr \in {PyTrue, PyFalse}
        /\ (result.expr = PyTrue)
             = Value(expr, [n \in DOMAIN vars |-> vars[n] = PyTrue])

====
